---- MODULE Spec2Model ----
(***************************************************************************)
(* A model of package mapset (golang-set): the single-thread set           *)
(* threadUnsafeSet (src/threadunsafe.go) and the lock-guarded set          *)
(* threadSafeSet (src/threadsafe.go).                                      *)
(*                                                                         *)
(* A set object is a cell holding the address of a membership table (a Go  *)
(* map is a reference).  A guarded set also carries a sync.RWMutex, which  *)
(* is modelled with the fields Go's implementation keeps.  Every method is *)
(* a short program of lock instructions and body steps, run by threads one *)
(* instruction at a time.                                                  *)
(***************************************************************************)
EXTENDS Integers, FiniteSets, Sequences, TLC

VARIABLES
    kind,     \* kind[o]: "none" | "safe" | "unsafe"   (the variant of set object o)
    tbl,      \* tbl[o] : address of o's membership table (0: none)
    heap,     \* heap[a]: the keys of the membership table at address a
    mu,       \* mu[o]  : the sync.RWMutex of guarded set o
    pc,       \* pc[t]  : index of thread t's next instruction (0: no call in progress)
    blocked,  \* blocked[t]: t sleeps on a semaphore inside its lock instruction
    call,     \* call[t]: the call in progress: op, set, other, arg
    loc,      \* loc[t] : locals of the call: pending result table, loop state
    ret,      \* ret[t] : what t's last call returned
    held,     \* held[t][o]: locks of o acquired minus released by t's current call
    ncalls,   \* ncalls[t]: calls t has started
    hist,     \* history of the run (bookkeeping for the properties)
    chan,     \* chan[t]: the channels of the traversal produced by goroutine t
    fatal     \* the runtime stopped the process (fatal error)

vars == <<kind, tbl, heap, mu, pc, blocked, call, loc, ret, held, ncalls, hist, chan, fatal>>

-----------------------------------------------------------------------------
(* Bounds of the model *)

MaxElem == 2
MaxLen == 2
MaxCalls == 2
NumThreads == 2

-----------------------------------------------------------------------------
(* Values: interface{} keys of the table *)

NilV == [k |-> "nil", a |-> 0, b |-> 0]
IntV(n) == [k |-> "int", a |-> n, b |-> 0]
OrderedPair(first, second) == [k |-> "pair", a |-> first, b |-> second]
\* what the JSON decoder yields: json.Number, string, []interface{}, map[string]interface{}
NumberV(n) == [k |-> "num", a |-> n, b |-> 0]
StringV(n) == [k |-> "str", a |-> n, b |-> 0]
SliceV == [k |-> "slice", a |-> 0, b |-> 0]
MapV == [k |-> "map", a |-> 0, b |-> 0]
\* bool
BoolV(x) == [k |-> "bool", a |-> IF x THEN 1 ELSE 0, b |-> 0]
\* a string that is not valid UTF-8
InvalidStringV == [k |-> "rawstr", a |-> 1, b |-> 0]
\* a value of an array type, such as [2]int
ArrayV == [k |-> "array", a |-> 0, b |-> 0]
\* a pointer to the set object o (*threadUnsafeSet, *threadSafeSet)
RefV(o) == [k |-> "ref", a |-> o, b |-> 0]

Elems == {IntV(n) : n \in 1..MaxElem}

Threads == DOMAIN pc
Objs == DOMAIN kind
SafeObjs == {1, 2}
UnsafeObjs == {3, 4}
ResultOf(t) == 10 + t

-----------------------------------------------------------------------------
(* threadUnsafeSet: the methods as functions of the table's key set.  A     *)
(* table is the set of its keys (map[interface{}]struct{}).                 *)

\* Add: reports whether the key was newly inserted
UnsafeAdd(s, key) ==
    IF key \in s THEN [tab |-> s, ok |-> FALSE]
                 ELSE [tab |-> s \cup {key}, ok |-> TRUE]

\* for elem := range keys { acc.Add(elem) }, in the map's (unspecified) order
RECURSIVE AddEach(_, _)
AddEach(acc, keys) ==
    IF keys = {} THEN acc
    ELSE LET elem == CHOOSE x \in keys : TRUE
         IN  AddEach(UnsafeAdd(acc, elem).tab, keys \ {elem})

UnsafeContains(s, keys) == \A key \in keys : key \in s

UnsafeCardinality(s) == Cardinality(s)

UnsafeIsSubset(s, o) ==
    IF UnsafeCardinality(s) > UnsafeCardinality(o) THEN FALSE
    ELSE \A elem \in s : UnsafeContains(o, {elem})

UnsafeEqual(s, o) ==
    IF UnsafeCardinality(s) # UnsafeCardinality(o) THEN FALSE
    ELSE \A elem \in s : UnsafeContains(o, {elem})

\* (mutant) a proper-subset test that does not ask for inequality
IsProperSubsetWithoutEqual(s, o) == UnsafeIsSubset(s, o)
UnsafeIsProperSubset(s, o) == UnsafeIsSubset(s, o) /\ ~UnsafeEqual(s, o)

\* return other.IsSubset(set)
UnsafeIsSuperset(s, o) == UnsafeIsSubset(o, s)

\* return set.IsSuperset(other) && !set.Equal(other)
UnsafeIsProperSuperset(s, o) == UnsafeIsSuperset(s, o) /\ ~UnsafeEqual(s, o)

UnsafeUnion(s, o) == AddEach(AddEach({}, s), o)

\* (mutant) an intersection whose second loop adds every key of the operand
\* without asking the receiver
IntersectWithoutContains(s, o) ==
    IF UnsafeCardinality(s) < UnsafeCardinality(o)
    THEN AddEach({}, {elem \in s : UnsafeContains(o, {elem})})
    ELSE AddEach({}, o)
UnsafeIntersect(s, o) ==
    IF UnsafeCardinality(s) < UnsafeCardinality(o)
    THEN AddEach({}, {elem \in s : UnsafeContains(o, {elem})})
    ELSE AddEach({}, {elem \in o : UnsafeContains(s, {elem})})

UnsafeDifference(s, o) == AddEach({}, {elem \in s : ~UnsafeContains(o, {elem})})

\* (mutant) a symmetric difference that leaves out other.Difference(set)
SymmetricDifferenceOneWay(s, o) == UnsafeDifference(s, o)
UnsafeSymmetricDifference(s, o) ==
    UnsafeUnion(UnsafeDifference(s, o), UnsafeDifference(o, s))

UnsafeRemove(s, i) == s \ {i}

\* the pairs hold the integer payloads of their two keys
UnsafeCartesianProduct(s, o) ==
    AddEach({}, {OrderedPair(i.a, j.a) : i \in s, j \in o})

\* the orders in which a range over the table may yield its keys
Orders(s) ==
    {q \in [1..Cardinality(s) -> s] : \A i, j \in 1..Cardinality(s) : q[i] = q[j] => i = j}

\* (mutant) a new subset that gets the item but not the keys of the subset
\* it extends
PowerSubsetItemOnly(k, item) == UnsafeAdd({}, item).tab
\* PowerSet, inner loop: p := newThreadUnsafeSet(); for ek := range *k
\* { p.Add(ek) }; p.Add(item)
PowerSubset(k, item) == UnsafeAdd(AddEach({}, k), item).tab

\* PowerSet, outer loop.  fam lists the tables of the subsets that powSet
\* points to; every &p is a new pointer, so powSet.Union(&u) appends u's.
RECURSIVE PowerFamily(_, _)
PowerFamily(fam, items) ==
    IF items = <<>> THEN fam
    ELSE LET u == [j \in 1..Len(fam) |-> PowerSubset(fam[j], Head(items))]
         IN  PowerFamily(fam \o u, Tail(items))

-----------------------------------------------------------------------------
(* UnmarshalJSON.  The input is a JSON array, given as the sequence of its  *)
(* entries: a number, a string, a nested array, a nested object, or a       *)
(* malformed fragment ("bad").                                              *)

JsonEntries ==
    {[k |-> "num", a |-> n] : n \in 1..MaxElem} \cup
    {[k |-> "str", a |-> 1], [k |-> "bool", a |-> 1],
     [k |-> "arr", a |-> 0], [k |-> "obj", a |-> 0], [k |-> "bad", a |-> 0]}

RECURSIVE SeqsUpTo(_, _)
SeqsUpTo(S, n) ==
    IF n = 0 THEN {<<>>}
    ELSE LET shorter == SeqsUpTo(S, n - 1)
         IN  shorter \cup {Append(q, x) : q \in shorter, x \in S}

JsonInputs == SeqsUpTo(JsonEntries, MaxLen)

\* the entries before the first malformed one
RECURSIVE WellFormedPrefix(_)
WellFormedPrefix(b) ==
    IF b = <<>> \/ Head(b).k = "bad" THEN <<>>
    ELSE <<Head(b)>> \o WellFormedPrefix(Tail(b))

Malformed(b) == Len(WellFormedPrefix(b)) < Len(b)

\* (mutant) a decoder that turns a number token into the integer it spells
DecodeEntryNumbersAsInt(e) ==
    CASE e.k = "num" -> IntV(e.a)
      [] e.k = "str" -> StringV(e.a)
      [] e.k = "bool" -> BoolV(e.a = 1)
      [] e.k = "arr" -> SliceV
      [] e.k = "obj" -> MapV
\* d.UseNumber(): a number token becomes a json.Number
DecodeEntry(e) ==
    CASE e.k = "num" -> NumberV(e.a)
      [] e.k = "str" -> StringV(e.a)
      [] e.k = "bool" -> BoolV(e.a = 1)
      [] e.k = "arr" -> SliceV
      [] e.k = "obj" -> MapV

\* d.Decode(&i): the decoder reads the whole value before it stores anything;
\* a syntax error leaves i nil
Decode(b) ==
    IF Malformed(b) THEN [err |-> TRUE, i |-> <<>>]
    ELSE [err |-> FALSE, i |-> [j \in 1..Len(b) |-> DecodeEntry(b[j])]]

\* for _, v := range i: skip a slice or a map, Add anything else
RECURSIVE AddDecoded(_, _)
AddDecoded(s, i) ==
    IF i = <<>> THEN s
    ELSE IF Head(i).k \in {"slice", "map"} THEN AddDecoded(s, Tail(i))
         ELSE AddDecoded(UnsafeAdd(s, Head(i)).tab, Tail(i))

\* (mutant) a decoder that adds each entry as soon as it has parsed it and
\* reports the error when it meets the malformed one
UnmarshalJSONIncremental(s, b) ==
    LET p == WellFormedPrefix(b)
    IN  [tab |-> AddDecoded(s, [j \in 1..Len(p) |-> DecodeEntry(p[j])]), err |-> Malformed(b)]

\* json.Marshal(elem): an integer gives a number token, a string a string
\* token in which the replacement character stands for every invalid byte (the
\* string 0), a bool true or false, a struct such as OrderedPair an object,
\* an array an array
MarshalEntry(elem) ==
    CASE elem.k = "int" -> [k |-> "num", a |-> elem.a]
      [] elem.k = "str" -> [k |-> "str", a |-> elem.a]
      [] elem.k = "rawstr" -> [k |-> "str", a |-> 0]
      [] elem.k = "bool" -> [k |-> "bool", a |-> elem.a]
      [] elem.k = "pair" -> [k |-> "obj", a |-> 0]
      [] elem.k = "array" -> [k |-> "arr", a |-> 0]

\* for elem := range *set { items = append(items, json.Marshal(elem)) }:
\* one output for each order of the range
UnsafeMarshalJSON(s) == {[j \in 1..Len(q) |-> MarshalEntry(q[j])] : q \in Orders(s)}

UnsafeUnmarshalJSON(s, b) ==
    LET d == Decode(b)
    IN  IF d.err THEN [tab |-> s, err |-> TRUE]
        ELSE [tab |-> AddDecoded(s, d.i), err |-> FALSE]

-----------------------------------------------------------------------------
(* sync.RWMutex, with the fields of Go's implementation:                    *)
(*   w      the inner writer mutex is held                                  *)
(*   wp     a writer is pending or active (readerCount is offset negative)  *)
(*   rc     readerCount without the offset: readers that entered RLock and  *)
(*          have not run RUnlock                                            *)
(*   rwait  readerWait: departing readers the pending writer waits for      *)
(*   wsem, rsem  the writer's and the readers' semaphores                   *)

ZeroMutex == [w |-> FALSE, wp |-> FALSE, rc |-> 0, rwait |-> 0, wsem |-> 0, rsem |-> 0]

\* RLock: count the reader in; it sleeps on rsem when a writer is pending
MutexRLock(m) == [m EXCEPT !.rc = @ + 1]
MutexRLockSleeps(m) == m.wp

\* RUnlock of a mutex no reader holds is a fatal error
MutexRUnlockFatal(m) == m.rc = 0
MutexRUnlock(m) ==
    IF ~m.wp THEN [m EXCEPT !.rc = @ - 1]
    ELSE [m EXCEPT !.rc = @ - 1, !.rwait = @ - 1,
                   !.wsem = IF m.rwait - 1 = 0 THEN @ + 1 ELSE @]

\* Lock: take w, announce the writer, wait for the active readers to leave
MutexLockReady(m) == ~m.w
MutexLockSleeps(m) == m.rc # 0 /\ m.rwait + m.rc # 0
MutexLock(m) ==
    [m EXCEPT !.w = TRUE, !.wp = TRUE, !.rwait = IF m.rc # 0 THEN @ + m.rc ELSE @]

\* Unlock: un-announce the writer, wake the blocked readers, release w
MutexUnlockFatal(m) == ~m.wp \/ ~m.w
MutexUnlock(m) == [m EXCEPT !.wp = FALSE, !.rsem = @ + m.rc, !.w = FALSE]

MutexFree(m) == ~m.w /\ ~m.wp /\ m.rc = 0

-----------------------------------------------------------------------------
(* What a method body does: the new keys of the receiver's table, whether    *)
(* the receiver gets a fresh table, the result set (a fresh table, or - in   *)
(* no method of the source - the receiver's own table), the returned value.  *)

RetNone == [k |-> "none", b |-> FALSE, v |-> NilV, op |-> "", out |-> <<>>]
RetVoid == [k |-> "void", b |-> FALSE, v |-> NilV, op |-> "", out |-> <<>>]
RetBool(x) == [k |-> "bool", b |-> x, v |-> NilV, op |-> "", out |-> <<>>]
RetVal(x) == [k |-> "val", b |-> FALSE, v |-> x, op |-> "", out |-> <<>>]
RetSet == [k |-> "set", b |-> FALSE, v |-> NilV, op |-> "", out |-> <<>>]
RetPanic == [k |-> "panic", b |-> FALSE, v |-> NilV, op |-> "", out |-> <<>>]
\* the bytes that MarshalJSON returns, as the sequence of the array's entries
RetBytes(b) == [k |-> "bytes", b |-> FALSE, v |-> NilV, op |-> "", out |-> b]
\* an error result: b tells whether the error is non-nil
RetErr(x) == [k |-> "err", b |-> x, v |-> NilV, op |-> "", out |-> <<>>]

Out(selfKeys, fresh, alias, resKeys, r) ==
    [self |-> selfKeys, fresh |-> fresh, alias |-> alias, res |-> resKeys, r |-> r]

AddOutcome(s, key) ==
    LET x == UnsafeAdd(s, key) IN Out(x.tab, FALSE, FALSE, {}, RetBool(x.ok))
ContainsOutcome(s, key) == Out(s, FALSE, FALSE, {}, RetBool(UnsafeContains(s, {key})))
RemoveOutcome(s, key) == Out(UnsafeRemove(s, key), FALSE, FALSE, {}, RetVoid)
ClearOutcome(s) == Out({}, TRUE, FALSE, {}, RetVoid)
CardinalityOutcome(s) == Out(s, FALSE, FALSE, {}, RetVal(IntV(UnsafeCardinality(s))))
\* (mutant) a Pop that returns an element and leaves it in the table
PopWithoutDelete(s) ==
    IF s = {} THEN {Out(s, FALSE, FALSE, {}, RetVal(NilV))}
    ELSE {Out(s, FALSE, FALSE, {}, RetVal(item)) : item \in s}
\* for item := range *set { delete(*set, item); return item }; return nil
PopOutcomes(s) ==
    IF s = {} THEN {Out(s, FALSE, FALSE, {}, RetVal(NilV))}
    ELSE {Out(s \ {item}, FALSE, FALSE, {}, RetVal(item)) : item \in s}
\* (mutant) a union that adds the other set's keys to the receiver and returns
\* the receiver's own table
UnionInPlace(s, o) == Out(UnsafeUnion(s, o), FALSE, TRUE, {}, RetSet)
UnionOutcome(s, o) == Out(s, FALSE, FALSE, UnsafeUnion(s, o), RetSet)
IntersectOutcome(s, o) == Out(s, FALSE, FALSE, UnsafeIntersect(s, o), RetSet)
DifferenceOutcome(s, o) == Out(s, FALSE, FALSE, UnsafeDifference(s, o), RetSet)
SymmetricDifferenceOutcome(s, o) ==
    Out(s, FALSE, FALSE, UnsafeSymmetricDifference(s, o), RetSet)
CartesianProductOutcome(s, o) == Out(s, FALSE, FALSE, UnsafeCartesianProduct(s, o), RetSet)
EqualOutcome(s, o) == Out(s, FALSE, FALSE, {}, RetBool(UnsafeEqual(s, o)))
IsSubsetOutcome(s, o) == Out(s, FALSE, FALSE, {}, RetBool(UnsafeIsSubset(s, o)))
IsProperSubsetOutcome(s, o) == Out(s, FALSE, FALSE, {}, RetBool(UnsafeIsProperSubset(s, o)))
IsSupersetOutcome(s, o) == Out(s, FALSE, FALSE, {}, RetBool(UnsafeIsSuperset(s, o)))
IsProperSupersetOutcome(s, o) ==
    Out(s, FALSE, FALSE, {}, RetBool(UnsafeIsProperSuperset(s, o)))
\* threadSafeSet.IsProperSuperset: return other.IsProperSubset(set)
SafeIsProperSupersetOutcome(s, o) ==
    Out(s, FALSE, FALSE, {}, RetBool(UnsafeIsProperSubset(o, s)))
MarshalJSONOutcomes(s) == {Out(s, FALSE, FALSE, {}, RetBytes(b)) : b \in UnsafeMarshalJSON(s)}
UnmarshalJSONOutcome(s, b) ==
    LET x == UnsafeUnmarshalJSON(s, b) IN Out(x.tab, FALSE, FALSE, {}, RetErr(x.err))

Outcomes(c, s, o) ==
    CASE c.op = "Add" -> {AddOutcome(s, c.arg)}
      [] c.op = "Contains" -> {ContainsOutcome(s, c.arg)}
      [] c.op = "Remove" -> {RemoveOutcome(s, c.arg)}
      [] c.op = "Clear" -> {ClearOutcome(s)}
      [] c.op = "Cardinality" -> {CardinalityOutcome(s)}
      [] c.op = "Pop" -> PopOutcomes(s)
      [] c.op = "Union" -> {UnionOutcome(s, o)}
      [] c.op = "Intersect" -> {IntersectOutcome(s, o)}
      [] c.op = "Difference" -> {DifferenceOutcome(s, o)}
      [] c.op = "SymmetricDifference" -> {SymmetricDifferenceOutcome(s, o)}
      [] c.op = "CartesianProduct" -> {CartesianProductOutcome(s, o)}
      [] c.op = "Equal" -> {EqualOutcome(s, o)}
      [] c.op = "IsSubset" -> {IsSubsetOutcome(s, o)}
      [] c.op = "IsProperSubset" -> {IsProperSubsetOutcome(s, o)}
      [] c.op = "IsSuperset" -> {IsSupersetOutcome(s, o)}
      [] c.op = "IsProperSuperset" ->
            IF kind[c.set] = "safe" THEN {SafeIsProperSupersetOutcome(s, o)}
                                    ELSE {IsProperSupersetOutcome(s, o)}
      [] c.op = "MarshalJSON" -> MarshalJSONOutcomes(s)
      [] c.op = "UnmarshalJSON" -> {UnmarshalJSONOutcome(s, c.in)}

BinaryOps == {"Union", "Intersect", "Difference", "SymmetricDifference", "CartesianProduct"}
TestOps == {"Equal", "IsSubset", "IsProperSubset"}
Mutators == {"Add", "Remove", "Clear", "Pop"}
\* the methods that write the receiver's table
Writers == Mutators \cup {"UnmarshalJSON"}
KeyOps == {"Add", "Remove", "Contains"}

-----------------------------------------------------------------------------
(* The methods as programs.  A deferred unlock runs after the body, last     *)
(* deferred first.                                                           *)

RL(x) == [i |-> "RLock", on |-> x]
RU(x) == [i |-> "RUnlock", on |-> x]
LK(x) == [i |-> "Lock", on |-> x]
UL(x) == [i |-> "Unlock", on |-> x]
BODY == [i |-> "Body", on |-> "set"]
RET == [i |-> "Return", on |-> "set"]

SafeWrite == <<LK("set"), BODY, UL("set"), RET>>
\* (mutant) a query that reads the table without taking the read lock
ReadWithoutLock == <<BODY, RET>>
SafeRead == <<RL("set"), BODY, RU("set"), RET>>
SafeUnmarshalJSON == <<RL("set"), BODY, RU("set"), RET>>
SafeBinary == <<RL("set"), RL("other"), BODY, RU("other"), RU("set"), RET>>
SafeCartesianProduct == <<RL("set"), RL("other"), BODY, RU("set"), RU("set"), RET>>
\* IsSuperset, IsProperSuperset: other.IsSubset(set), other.IsProperSubset(set)
\* lock the operand first
SafeSuperset == <<RL("other"), RL("set"), BODY, RU("set"), RU("other"), RET>>

\* The goroutine of a traversal: for elem := range set { ch <- elem }, and in
\* Iterator the hand-off is one case of a select whose other case is <-stopCh
BEGIN == [i |-> "Begin", on |-> "set"]
RANGE(exit) == [i |-> "Range", on |-> "set", exit |-> exit]
SEND(sel, loop, exit) == [i |-> "Send", on |-> "set", sel |-> sel, loop |-> loop, exit |-> exit]
CLOSE == [i |-> "Close", on |-> "set"]
ProducerCode(sel, base) ==
    <<BEGIN, RANGE(base + 4), SEND(sel, base + 2, base + 4), CLOSE>>

\* (mutant) a producer that ranges over the table without the read lock
IterWithoutLock == ProducerCode(FALSE, 0) \o <<RET>>
SafeIter == <<RL("set")>> \o ProducerCode(FALSE, 1) \o <<RU("set"), RET>>
\* (mutant) a producer that offers every element and never looks at stopCh
IteratorIgnoringStop == <<RL("set")>> \o ProducerCode(FALSE, 1) \o <<RU("set"), RET>>
SafeIterator == <<RL("set")>> \o ProducerCode(TRUE, 1) \o <<RU("set"), RET>>
UnsafeIter == ProducerCode(FALSE, 0) \o <<RET>>
UnsafeIterator == ProducerCode(TRUE, 0) \o <<RET>>

\* PowerSet: the unguarded computation, and in the guarded set the loop that
\* wraps every subset in a threadSafeSet after the read lock is released
POWER == [i |-> "Power", on |-> "set"]
WRAP == [i |-> "Wrap", on |-> "set"]
SafePowerSet == <<RL("set"), POWER, RU("set"), WRAP, RET>>
UnsafePowerSet == <<POWER, RET>>

SafeProg(op) ==
    CASE op \in Mutators -> SafeWrite
      [] op = "PowerSet" -> SafePowerSet
      [] op = "Iter" -> SafeIter
      [] op = "Iterator" -> SafeIterator
      [] op \in {"Contains", "Cardinality", "MarshalJSON"} -> SafeRead
      [] op = "UnmarshalJSON" -> SafeUnmarshalJSON
      [] op = "CartesianProduct" -> SafeCartesianProduct
      [] op \in {"IsSuperset", "IsProperSuperset"} -> SafeSuperset
      [] op \in (BinaryOps \ {"CartesianProduct"}) \cup TestOps -> SafeBinary

UnsafeProg(op) ==
    CASE op = "Iter" -> UnsafeIter
      [] op = "PowerSet" -> UnsafePowerSet
      [] op = "Iterator" -> UnsafeIterator
      [] OTHER -> <<BODY, RET>>

\* A call whose operand is of the other variant.  The unguarded methods reach
\* a guarded operand through the Set interface: other.Cardinality() and
\* other.Contains(elem) each take and release the operand's read lock.  g is
\* the guarded operand of the call and u the unguarded one.
CARD(g) == [i |-> "Card", on |-> g]
CMP(rel, u, exit) == [i |-> "Cmp", on |-> u, rel |-> rel, exit |-> exit]
ALLOC(u) == [i |-> "Alloc", on |-> u]
PROBE(g) == [i |-> "Probe", on |-> g]
TEST(loop, exit) == [i |-> "Test", on |-> "set", loop |-> loop, exit |-> exit]
KEEP(loop) == [i |-> "Keep", on |-> "set", loop |-> loop]
RESULT(r, exit) == [i |-> "Result", on |-> "set", r |-> r, exit |-> exit]
PANIC == [i |-> "Panic", on |-> "set"]

\* other.(*threadSafeSet) or other.(*threadUnsafeSet) on an operand of the
\* other variant: the type assertion panics before anything else is done
CastPanics == <<PANIC, RET>>

\* threadUnsafeSet.IsSubset (rel "gt") and threadUnsafeSet.Equal (rel "ne"),
\* placed after the first base instructions of a program
CompareCode(rel, g, u, base, no, yes) ==
    <<RL(g), CARD(g), RU(g), CMP(rel, u, no), RANGE(yes),
      RL(g), PROBE(g), RU(g), TEST(base + 5, no)>>

MixedIsSubset(g, u) ==
    CompareCode("gt", g, u, 0, 10, 11)
        \o <<RESULT(RetBool(FALSE), 12), RESULT(RetBool(TRUE), 12), RET>>

MixedEqual(g, u) ==
    CompareCode("ne", g, u, 0, 10, 11)
        \o <<RESULT(RetBool(FALSE), 12), RESULT(RetBool(TRUE), 12), RET>>

\* set.IsSubset(other) && !set.Equal(other)
MixedIsProperSubset(g, u) ==
    CompareCode("gt", g, u, 0, 19, 10) \o CompareCode("ne", g, u, 9, 20, 19)
        \o <<RESULT(RetBool(FALSE), 21), RESULT(RetBool(TRUE), 21), RET>>

DifferenceCode(g, u, exit) == <<ALLOC(u), RANGE(exit), RL(g), PROBE(g), RU(g), KEEP(2)>>

MixedDifference(g, u) == DifferenceCode(g, u, 7) \o <<RESULT(RetSet, 8), RET>>

\* sdo := set.Difference(other); ods := other.Difference(set) panics in the
\* guarded Difference's type assertion
MixedSymmetricDifference(g, u) == DifferenceCode(g, u, 7) \o <<PANIC, RET>>

SupersetOps == {"IsSuperset", "IsProperSuperset"}

MixedProg(c) ==
    IF kind[c.set] = "safe"
    THEN \* IsSuperset and IsProperSuperset hand the call to the operand
         CASE c.op = "IsSuperset" -> MixedIsSubset("set", "other")
           [] c.op = "IsProperSuperset" -> MixedIsProperSubset("set", "other")
           [] OTHER -> CastPanics
    ELSE CASE c.op = "IsSubset" -> MixedIsSubset("other", "set")
           [] c.op = "Equal" -> MixedEqual("other", "set")
           [] c.op = "IsProperSubset" -> MixedIsProperSubset("other", "set")
           [] c.op = "Difference" -> MixedDifference("other", "set")
           [] c.op = "SymmetricDifference" -> MixedSymmetricDifference("other", "set")
           [] OTHER -> CastPanics

Mixed(c) == c.set # 0 /\ kind[c.set] # kind[c.other]

Prog(c) ==
    IF Mixed(c) THEN MixedProg(c)
    ELSE IF kind[c.set] = "safe" THEN SafeProg(c.op) ELSE UnsafeProg(c.op)

Instr(t) == Prog(call[t])[pc[t]]
Target(t) == IF Instr(t).on = "set" THEN call[t].set ELSE call[t].other
Running(t) == ~fatal /\ pc[t] > 0
At(t, i) == Running(t) /\ Instr(t).i = i

MkCall(op, self, other, arg, in) ==
    [op |-> op, set |-> self, other |-> other, arg |-> arg, in |-> in]
NoCall == MkCall("", 0, 0, NilV, <<>>)
NoLoc == [tmp |-> 0, r |-> RetNone, n |-> 0, todo |-> {}, cur |-> NilV, hit |-> FALSE]
NoHeld == [o \in Objs |-> 0]
\* the element channel ch and the stop channel of a traversal, and what its
\* consumer is doing: receiving ("open"), gone without a word ("abandoned"),
\* or gone after signalling stop ("stopped")
NoChan == [state |-> "none", by |-> "", closed |-> FALSE, got |-> {}]

-----------------------------------------------------------------------------
(* The heap of membership tables *)

Addr == DOMAIN heap
Live(kd) == {o \in Objs : kd[o] # "none"}
UsedAddr(kd, tb, lc) == ({tb[o] : o \in Live(kd)} \cup {lc[t].tmp : t \in Threads}) \ {0}
\* make(threadUnsafeSet): the first address no object and no pending result uses
NewAddr(used) == CHOOSE a \in Addr \ used : \A b \in Addr \ used : a <= b
\* a table nothing refers to is garbage
Collect(h, kd, tb, lc) == [a \in Addr |-> IF a \in UsedAddr(kd, tb, lc) THEN h[a] ELSE {}]

Keys(o) == IF kind[o] = "none" THEN {} ELSE heap[tbl[o]]

NoHist == [made |-> "", a |-> 0, b |-> 0, mut |-> FALSE, opmut |-> FALSE]

-----------------------------------------------------------------------------
(* Steps of a thread *)

\* A caller starts a call on sets of its own variant.  The shared sets are
\* open to every thread, a result only to the thread that holds it, and an
\* unguarded set only to the first thread.
Usable(t) ==
    {o \in Live(kind) : \/ o \in SafeObjs
                        \/ o = ResultOf(t)
                        \/ (o \in UnsafeObjs /\ \A u \in Threads : t <= u)}

StartCall(t, c, limit) ==
    /\ ~fatal /\ pc[t] = 0 /\ ncalls[t] < limit
    /\ call' = [call EXCEPT ![t] = c]
    /\ pc' = [pc EXCEPT ![t] = 1]
    /\ held' = [held EXCEPT ![t] = NoHeld]
    /\ ncalls' = [ncalls EXCEPT ![t] = @ + 1]
    /\ UNCHANGED <<kind, tbl, heap, mu, blocked, loc, ret, hist, chan, fatal>>

Start(t, ops, inputs, limit) ==
    /\ ~fatal /\ pc[t] = 0 /\ ncalls[t] < limit
    /\ \E op \in ops, self \in Usable(t), other \in Usable(t), arg \in Elems \cup {NilV} :
        /\ IF op \in BinaryOps \cup TestOps
              THEN kind[other] = kind[self] ELSE other = self
        /\ (op \in KeyOps) <=> (arg # NilV)
        /\ op = "CartesianProduct" => \A x \in Keys(self) \cup Keys(other) : x.k = "int"
        /\ \E in \in (IF op = "UnmarshalJSON" THEN inputs ELSE {<<>>}) :
              StartCall(t, MkCall(op, self, other, arg, in), limit)

Advance(t, o, d) ==
    /\ pc' = [pc EXCEPT ![t] = @ + 1]
    /\ held' = [held EXCEPT ![t][o] = @ + d]

RLock(t) ==
    /\ At(t, "RLock") /\ ~blocked[t]
    /\ LET o == Target(t) IN
          /\ mu' = [mu EXCEPT ![o] = MutexRLock(@)]
          /\ IF MutexRLockSleeps(mu[o])
                THEN blocked' = [blocked EXCEPT ![t] = TRUE] /\ UNCHANGED <<pc, held>>
                ELSE Advance(t, o, 1) /\ UNCHANGED blocked
    /\ UNCHANGED <<kind, tbl, heap, call, loc, ret, ncalls, hist, chan, fatal>>

RLockWake(t) ==
    /\ At(t, "RLock") /\ blocked[t]
    /\ LET o == Target(t) IN
          /\ mu[o].rsem > 0
          /\ mu' = [mu EXCEPT ![o].rsem = @ - 1]
          /\ Advance(t, o, 1)
    /\ blocked' = [blocked EXCEPT ![t] = FALSE]
    /\ UNCHANGED <<kind, tbl, heap, call, loc, ret, ncalls, hist, chan, fatal>>

Lock(t) ==
    /\ At(t, "Lock") /\ ~blocked[t]
    /\ LET o == Target(t) IN
          /\ MutexLockReady(mu[o])
          /\ mu' = [mu EXCEPT ![o] = MutexLock(@)]
          /\ IF MutexLockSleeps(mu[o])
                THEN blocked' = [blocked EXCEPT ![t] = TRUE] /\ UNCHANGED <<pc, held>>
                ELSE Advance(t, o, 1) /\ UNCHANGED blocked
    /\ UNCHANGED <<kind, tbl, heap, call, loc, ret, ncalls, hist, chan, fatal>>

LockWake(t) ==
    /\ At(t, "Lock") /\ blocked[t]
    /\ LET o == Target(t) IN
          /\ mu[o].wsem > 0
          /\ mu' = [mu EXCEPT ![o].wsem = @ - 1]
          /\ Advance(t, o, 1)
    /\ blocked' = [blocked EXCEPT ![t] = FALSE]
    /\ UNCHANGED <<kind, tbl, heap, call, loc, ret, ncalls, hist, chan, fatal>>

RUnlock(t) ==
    /\ At(t, "RUnlock")
    /\ LET o == Target(t) IN
          IF MutexRUnlockFatal(mu[o])
             THEN fatal' = TRUE /\ UNCHANGED <<mu, pc, held>>
             ELSE /\ mu' = [mu EXCEPT ![o] = MutexRUnlock(@)]
                  /\ Advance(t, o, -1)
                  /\ UNCHANGED fatal
    /\ UNCHANGED <<kind, tbl, heap, blocked, call, loc, ret, ncalls, hist, chan>>

Unlock(t) ==
    /\ At(t, "Unlock")
    /\ LET o == Target(t) IN
          IF MutexUnlockFatal(mu[o])
             THEN fatal' = TRUE /\ UNCHANGED <<mu, pc, held>>
             ELSE /\ mu' = [mu EXCEPT ![o] = MutexUnlock(@)]
                  /\ Advance(t, o, -1)
                  /\ UNCHANGED fatal
    /\ UNCHANGED <<kind, tbl, heap, blocked, call, loc, ret, ncalls, hist, chan>>

\* The body of the method, on the unguarded tables of the operands
Body(t) ==
    /\ At(t, "Body")
    /\ LET c == call[t]
           sa == tbl[c.set]
       IN  \E out \in Outcomes(c, heap[sa], heap[tbl[c.other]]) :
             LET used == UsedAddr(kind, tbl, loc)
                 n == NewAddr(used)
                 tb == IF out.fresh THEN [tbl EXCEPT ![c.set] = n] ELSE tbl
                 tmp == IF out.r.k # "set" THEN 0 ELSE IF out.alias THEN sa ELSE n
                 lc == [loc EXCEPT ![t] = [NoLoc EXCEPT !.tmp = tmp, !.r = out.r]]
                 h == IF out.fresh THEN [heap EXCEPT ![n] = {}]
                      ELSE IF out.r.k = "set" /\ ~out.alias
                           THEN [heap EXCEPT ![sa] = out.self, ![n] = out.res]
                           ELSE [heap EXCEPT ![sa] = out.self]
             IN  /\ tbl' = tb
                 /\ loc' = lc
                 /\ heap' = Collect(h, kind, tb, lc)
                 /\ hist' = IF c.op \in Writers
                            THEN [o \in Objs |->
                                    IF o = c.set THEN [hist[o] EXCEPT !.mut = TRUE]
                                    ELSE IF c.set \in {hist[o].a, hist[o].b}
                                         THEN [hist[o] EXCEPT !.opmut = TRUE]
                                         ELSE hist[o]]
                            ELSE hist
    /\ pc' = [pc EXCEPT ![t] = @ + 1]
    /\ UNCHANGED <<kind, mu, blocked, call, ret, held, ncalls, chan, fatal>>

\* return: a set result becomes the caller's new set object
Return(t) ==
    /\ At(t, "Return")
    /\ LET c == call[t]
           R == ResultOf(t)
           isSet == loc[t].r.k = "set"
           kd == IF isSet THEN [kind EXCEPT ![R] = kind[c.set]] ELSE kind
           tb == IF isSet THEN [tbl EXCEPT ![R] = loc[t].tmp] ELSE tbl
           lc == [loc EXCEPT ![t] = NoLoc]
       IN  /\ kind' = kd
           /\ tbl' = tb
           /\ loc' = lc
           /\ mu' = IF isSet THEN [mu EXCEPT ![R] = ZeroMutex] ELSE mu
           /\ heap' = Collect(heap, kd, tb, lc)
           /\ hist' = IF isSet
                      THEN [hist EXCEPT ![R] = [made |-> c.op, a |-> c.set, b |-> c.other,
                                                mut |-> FALSE, opmut |-> FALSE]]
                      ELSE hist
           /\ ret' = [ret EXCEPT ![t] = [loc[t].r EXCEPT !.op = c.op]]
    /\ pc' = [pc EXCEPT ![t] = 0]
    /\ call' = [call EXCEPT ![t] = NoCall]
    /\ UNCHANGED <<blocked, held, ncalls, chan, fatal>>

\* Steps of an unguarded method that reaches a guarded operand through the
\* Set interface

Jump(t, k) == pc' = [pc EXCEPT ![t] = k]

\* other.Cardinality(), under the operand's read lock
Card(t) ==
    /\ At(t, "Card")
    /\ loc' = [loc EXCEPT ![t].n = UnsafeCardinality(Keys(Target(t)))]
    /\ Jump(t, pc[t] + 1)
    /\ UNCHANGED <<kind, tbl, heap, mu, blocked, call, ret, held, ncalls, hist, chan, fatal>>

\* if set.Cardinality() > other.Cardinality() { return false }  (!= in Equal);
\* otherwise the range over the receiver begins
Cmp(t) ==
    /\ At(t, "Cmp")
    /\ LET I == Instr(t)
           mine == UnsafeCardinality(Keys(Target(t)))
           fails == IF I.rel = "gt" THEN mine > loc[t].n ELSE mine # loc[t].n
       IN  IF fails THEN Jump(t, I.exit) /\ UNCHANGED loc
           ELSE /\ loc' = [loc EXCEPT ![t].todo = Keys(Target(t))]
                /\ Jump(t, pc[t] + 1)
    /\ UNCHANGED <<kind, tbl, heap, mu, blocked, call, ret, held, ncalls, hist, chan, fatal>>

\* difference := newThreadUnsafeSet(), and the range over the receiver begins
Alloc(t) ==
    /\ At(t, "Alloc")
    /\ LET n == NewAddr(UsedAddr(kind, tbl, loc))
       IN  /\ loc' = [loc EXCEPT ![t].tmp = n, ![t].todo = Keys(Target(t))]
           /\ heap' = [heap EXCEPT ![n] = {}]
    /\ Jump(t, pc[t] + 1)
    /\ UNCHANGED <<kind, tbl, mu, blocked, call, ret, held, ncalls, hist, chan, fatal>>

\* for elem := range *set: the next key, in no particular order
Range(t) ==
    /\ At(t, "Range")
    /\ IF loc[t].todo = {} THEN Jump(t, Instr(t).exit) /\ UNCHANGED loc
       ELSE \E e \in loc[t].todo :
               /\ loc' = [loc EXCEPT ![t].cur = e, ![t].todo = @ \ {e}]
               /\ Jump(t, pc[t] + 1)
    /\ UNCHANGED <<kind, tbl, heap, mu, blocked, call, ret, held, ncalls, hist, chan, fatal>>

\* other.Contains(elem), under the operand's read lock
Probe(t) ==
    /\ At(t, "Probe")
    /\ loc' = [loc EXCEPT ![t].hit = UnsafeContains(Keys(Target(t)), {loc[t].cur})]
    /\ Jump(t, pc[t] + 1)
    /\ UNCHANGED <<kind, tbl, heap, mu, blocked, call, ret, held, ncalls, hist, chan, fatal>>

\* if !other.Contains(elem) { return false }
Test(t) ==
    /\ At(t, "Test")
    /\ Jump(t, IF loc[t].hit THEN Instr(t).loop ELSE Instr(t).exit)
    /\ UNCHANGED <<kind, tbl, heap, mu, blocked, call, loc, ret, held, ncalls, hist, chan, fatal>>

\* if !other.Contains(elem) { difference.Add(elem) }
Keep(t) ==
    /\ At(t, "Keep")
    /\ heap' = IF loc[t].hit THEN heap
               ELSE [heap EXCEPT ![loc[t].tmp] = UnsafeAdd(@, loc[t].cur).tab]
    /\ Jump(t, Instr(t).loop)
    /\ UNCHANGED <<kind, tbl, mu, blocked, call, loc, ret, held, ncalls, hist, chan, fatal>>

Result(t) ==
    /\ At(t, "Result")
    /\ loc' = [loc EXCEPT ![t].r = Instr(t).r]
    /\ Jump(t, Instr(t).exit)
    /\ UNCHANGED <<kind, tbl, heap, mu, blocked, call, ret, held, ncalls, hist, chan, fatal>>

\* a failed type assertion: the call ends in a panic and what it had built
\* is dropped
Panic(t) ==
    /\ At(t, "Panic")
    /\ LET lc == [loc EXCEPT ![t] = [NoLoc EXCEPT !.r = RetPanic]]
       IN  loc' = lc /\ heap' = Collect(heap, kind, tbl, lc)
    /\ Jump(t, pc[t] + 1)
    /\ UNCHANGED <<kind, tbl, mu, blocked, call, ret, held, ncalls, hist, chan, fatal>>

\* Traversals.  Iter() and Iterator() make the channels, start the goroutine
\* t on the set and return; the caller becomes the consumer of chan[t].

Traverse(t, op) ==
    /\ ~fatal /\ pc[t] = 0 /\ ncalls[t] = 0
    /\ \E self \in Usable(t) :
          /\ call' = [call EXCEPT ![t] = MkCall(op, self, self, NilV, <<>>)]
          /\ chan' = [chan EXCEPT ![t] = [NoChan EXCEPT !.state = "open", !.by = op]]
    /\ pc' = [pc EXCEPT ![t] = 1]
    /\ held' = [held EXCEPT ![t] = NoHeld]
    /\ ncalls' = [ncalls EXCEPT ![t] = @ + 1]
    /\ UNCHANGED <<kind, tbl, heap, mu, blocked, loc, ret, hist, fatal>>

Iter(t) == pc[t] = 0 /\ Traverse(t, "Iter")
Iterator(t) == pc[t] = 0 /\ Traverse(t, "Iterator")

\* for elem := range set.objects: the range begins
Begin(t) ==
    /\ At(t, "Begin")
    /\ loc' = [loc EXCEPT ![t].todo = Keys(Target(t))]
    /\ Jump(t, pc[t] + 1)
    /\ UNCHANGED <<kind, tbl, heap, mu, blocked, call, ret, held, ncalls, hist, chan, fatal>>

\* ch <- elem: the channel has no buffer, the send completes when the
\* consumer receives
Send(t) ==
    /\ At(t, "Send")
    /\ chan[t].state = "open"
    /\ chan' = [chan EXCEPT ![t].got = @ \cup {loc[t].cur}]
    /\ Jump(t, Instr(t).loop)
    /\ UNCHANGED <<kind, tbl, heap, mu, blocked, call, loc, ret, held, ncalls, hist, fatal>>

\* case <-stopCh: break L
StopCase(t) ==
    /\ At(t, "Send") /\ Instr(t).sel
    /\ chan[t].state = "stopped"
    /\ Jump(t, Instr(t).exit)
    /\ UNCHANGED <<kind, tbl, heap, mu, blocked, call, loc, ret, held, ncalls, hist, chan, fatal>>

\* close(ch)
Close(t) ==
    /\ At(t, "Close")
    /\ chan' = [chan EXCEPT ![t].closed = TRUE]
    /\ Jump(t, pc[t] + 1)
    /\ UNCHANGED <<kind, tbl, heap, mu, blocked, call, loc, ret, held, ncalls, hist, fatal>>

\* Iterator.Stop: the consumer signals stop and receives no more
Stop(t) ==
    /\ chan[t].state = "open" /\ chan[t].by = "Iterator"
    /\ chan' = [chan EXCEPT ![t].state = "stopped"]
    /\ UNCHANGED <<kind, tbl, heap, mu, pc, blocked, call, loc, ret, held, ncalls, hist, fatal>>

\* the consumer stops receiving before the channel is closed and signals
\* nothing
Abandon(t) ==
    /\ chan[t].state = "open" /\ ~chan[t].closed
    /\ chan' = [chan EXCEPT ![t].state = "abandoned"]
    /\ UNCHANGED <<kind, tbl, heap, mu, pc, blocked, call, loc, ret, held, ncalls, hist, fatal>>

\* PowerSet.  The subsets are new set objects: the i-th subset built is the
\* object SubsetObj(i), and the result's table holds the pointers to them.

SubsetObj(i) == 20 + i
SubsetObjs == {o \in Objs : o > 20}

RECURSIVE AllocN(_, _)
AllocN(used, n) ==
    IF n = 0 THEN <<>>
    ELSE LET a == NewAddr(used) IN <<a>> \o AllocN(used \cup {a}, n - 1)

\* (mutant) the subset equal to the parent is a view of the parent's table
SubsetTablesAliasParent(used, fam, parent) ==
    [i \in 1..Len(fam) |-> IF fam[i] = heap[parent] THEN parent
                            ELSE AllocN(used, Len(fam))[i]]
\* nullset := newThreadUnsafeSet(), p := newThreadUnsafeSet(): every subset
\* gets a table of its own
SubsetTables(used, fam, parent) == AllocN(used, Len(fam))

Power(t) ==
    /\ At(t, "Power")
    /\ \A o \in SubsetObjs : kind[o] = "none"
    /\ \E items \in Orders(Keys(Target(t))) :
          LET fam == PowerFamily(<<{}>>, items)
              ix == 1..Len(fam)
              n == NewAddr(UsedAddr(kind, tbl, loc))
              tabs == SubsetTables(UsedAddr(kind, tbl, loc) \cup {n}, fam, tbl[Target(t)])
              kd == [o \in Objs |-> IF o \in {SubsetObj(i) : i \in ix} THEN "unsafe" ELSE kind[o]]
              tb == [o \in Objs |-> IF o \in {SubsetObj(i) : i \in ix}
                                     THEN tabs[CHOOSE i \in ix : o = SubsetObj(i)] ELSE tbl[o]]
              lc == [loc EXCEPT ![t] = [NoLoc EXCEPT !.tmp = n, !.r = RetSet]]
              h == [a \in Addr |->
                      IF a = n THEN {RefV(SubsetObj(i)) : i \in ix}
                      ELSE IF \E i \in ix : tabs[i] = a
                           THEN fam[CHOOSE i \in ix : tabs[i] = a]
                           ELSE heap[a]]
          IN  /\ {SubsetObj(i) : i \in ix} \subseteq Objs
              /\ kind' = kd
              /\ tbl' = tb
              /\ loc' = lc
              /\ heap' = Collect(h, kd, tb, lc)
    /\ Jump(t, pc[t] + 1)
    /\ UNCHANGED <<mu, blocked, call, ret, held, ncalls, hist, chan, fatal>>

\* tss.Add(&threadSafeSet{objects: *unsafeSubset}) for every subset: the new
\* guarded set takes over the subset's table, with a mutex of its own
Wrap(t) ==
    /\ At(t, "Wrap")
    /\ LET members == {m.a : m \in heap[loc[t].tmp]}
       IN  /\ kind' = [o \in Objs |-> IF o \in members THEN "safe" ELSE kind[o]]
           /\ mu' = [o \in Objs |-> IF o \in members THEN ZeroMutex ELSE mu[o]]
    /\ Jump(t, pc[t] + 1)
    /\ UNCHANGED <<tbl, heap, blocked, call, loc, ret, held, ncalls, hist, chan, fatal>>

-----------------------------------------------------------------------------
(* Initial states: the set objects 1, 2 (guarded) and 3, 4 (unguarded), one *)
(* result cell per thread, and a heap with room for every table.            *)

ObjIds(T) == SafeObjs \cup UnsafeObjs \cup {ResultOf(t) : t \in T}

InitWith(T, kd, contents) ==
    /\ kind = kd
    /\ tbl = [o \in ObjIds(T) |-> IF kd[o] = "none" THEN 0 ELSE o]
    /\ heap = [a \in 1..(4 + 2 * Cardinality(T)) |->
                 IF a \in ObjIds(T) /\ kd[a] # "none" THEN contents[a] ELSE {}]
    /\ mu = [o \in ObjIds(T) |-> ZeroMutex]
    /\ pc = [t \in T |-> 0]
    /\ blocked = [t \in T |-> FALSE]
    /\ call = [t \in T |-> NoCall]
    /\ loc = [t \in T |-> NoLoc]
    /\ ret = [t \in T |-> RetNone]
    /\ held = [t \in T |-> [o \in ObjIds(T) |-> 0]]
    /\ ncalls = [t \in T |-> 0]
    /\ hist = [o \in ObjIds(T) |-> NoHist]
    /\ chan = [t \in T |-> NoChan]
    /\ fatal = FALSE

GuardedOnly(T) == [o \in ObjIds(T) |-> IF o \in SafeObjs THEN "safe" ELSE "none"]
BothVariants(T) ==
    [o \in ObjIds(T) |-> IF o \in SafeObjs THEN "safe"
                         ELSE IF o \in UnsafeObjs THEN "unsafe" ELSE "none"]

-----------------------------------------------------------------------------
(* Spec: NumThreads threads, each making one call on the guarded sets 1, 2: *)
(* a binary operation, a subset or equality test, Contains or Add.          *)

MainThreads == 1..NumThreads

\* set 1 holds any keys, set 2 the key 1
LockInit(T) ==
    \E contents \in [SafeObjs \cup UnsafeObjs -> SUBSET Elems] :
        /\ contents[2] = {IntV(1)}
        /\ \A o \in UnsafeObjs : contents[o] = {}
        /\ InitWith(T, GuardedOnly(T), contents)

Init == LockInit(MainThreads)

LockOps == BinaryOps \cup TestOps \cup {"Contains", "Add"}

Call(t) == Start(t, LockOps, {}, 1)

Next ==
    \/ \E t \in MainThreads : Call(t)
    \/ \E t \in MainThreads : RLock(t)
    \/ \E t \in MainThreads : RLockWake(t)
    \/ \E t \in MainThreads : Lock(t)
    \/ \E t \in MainThreads : LockWake(t)
    \/ \E t \in MainThreads : RUnlock(t)
    \/ \E t \in MainThreads : Unlock(t)
    \/ \E t \in MainThreads : Body(t)
    \/ \E t \in MainThreads : Return(t)

Spec == Init /\ [][Next]_vars

Idle(t) == pc[t] = 0
Returned(t) == pc[t] = 0 /\ ncalls[t] > 0 /\ ret[t].k # "panic"

\* C1: in a binary operation of the guarded set the calling thread never holds
\* the locks of both operands at the same time (each operand is snapshotted
\* under its own lock, released before the other lock is taken).
C1_NeverHoldsBothLocks ==
    \A t \in Threads : \A a, b \in SafeObjs :
        a # b => ~(held[t][a] > 0 /\ held[t][b] > 0)

\* C3: when a guarded-set call returns, every lock the call acquired, on either
\* operand, has been released exactly once; and when no call is in progress
\* every lock is free.
C3_LocksReleasedAtReturn ==
    /\ \A t \in Threads : Returned(t) => \A o \in Objs : held[t][o] = 0
    /\ (~fatal /\ \A t \in Threads : Idle(t)) =>
           \A o \in Live(kind) : kind[o] = "safe" => MutexFree(mu[o])

-----------------------------------------------------------------------------
(* SymSpec: the symmetric calls.  For the guarded sets 1 and 2, thread 1    *)
(* calls 1.Union(2), thread 2 calls 2.Union(1), thread 3 calls Add on set 1 *)
(* and thread 4 Add on set 2.  Every thread is scheduled fairly.            *)

SymThreads == 1..4

SymInit == LockInit(SymThreads)

SymCall(t) ==
    /\ pc[t] = 0
    /\ IF t \in SafeObjs
          THEN StartCall(t, MkCall("Union", t, 3 - t, NilV, <<>>), 1)
          ELSE \E x \in Elems :
                  StartCall(t, MkCall("Add", t - 2, t - 2, x, <<>>), 1)

ThreadStep(t) ==
    \/ RLock(t) \/ RLockWake(t) \/ Lock(t) \/ LockWake(t)
    \/ RUnlock(t) \/ Unlock(t) \/ Body(t) \/ Return(t)

SymNext ==
    \/ \E t \in SymThreads : SymCall(t)
    \/ \E t \in SymThreads : RLock(t)
    \/ \E t \in SymThreads : RLockWake(t)
    \/ \E t \in SymThreads : Lock(t)
    \/ \E t \in SymThreads : LockWake(t)
    \/ \E t \in SymThreads : RUnlock(t)
    \/ \E t \in SymThreads : Unlock(t)
    \/ \E t \in SymThreads : Body(t)
    \/ \E t \in SymThreads : Return(t)

SymSpec ==
    /\ SymInit /\ [][SymNext]_vars
    /\ \A t \in SymThreads : WF_vars(SymCall(t) \/ ThreadStep(t))

\* C2: with 1.Union(2), 2.Union(1), Add on 1 and Add on 2 running on four
\* fairly scheduled threads, every call eventually returns.
C2_SymmetricCallsReturn == <>(\A t \in SymThreads : Returned(t))

-----------------------------------------------------------------------------
(* JsonSpec: one caller deserializes one input into the guarded set 1 or    *)
(* into the unguarded set 3, which start with the same decoded numbers.     *)

JsonThreads == 1..1

JsonKinds(T) ==
    [o \in ObjIds(T) |-> IF o = 1 THEN "safe" ELSE IF o = 3 THEN "unsafe" ELSE "none"]

JsonInit ==
    \E X \in SUBSET {NumberV(n) : n \in 1..MaxElem} :
        InitWith(JsonThreads, JsonKinds(JsonThreads), [o \in SafeObjs \cup UnsafeObjs |-> X])

JsonCall(t) == Start(t, {"UnmarshalJSON"}, JsonInputs, 1)

JsonNext ==
    \/ \E t \in JsonThreads : JsonCall(t)
    \/ \E t \in JsonThreads : RLock(t)
    \/ \E t \in JsonThreads : RUnlock(t)
    \/ \E t \in JsonThreads : Body(t)
    \/ \E t \in JsonThreads : Return(t)

JsonSpec == JsonInit /\ [][JsonNext]_vars

\* the body step of a deserialization by thread t
UnmarshalStep(t) ==
    /\ At(t, "Body") /\ call[t].op = "UnmarshalJSON"
    /\ pc'[t] = pc[t] + 1

Scalar(e) == e.k \in {"num", "str"}
ScalarsThenMalformed(b) ==
    /\ Malformed(b)
    /\ \A j \in 1..Len(WellFormedPrefix(b)) : Scalar(b[j])

\* C10 (as stated): when the input's first k entries are well-formed scalars
\* and its later part is malformed, Deserialize returns a decode error and the
\* k parsed elements are in the set afterwards.
C10_ParsedPrefixRemainsAdded ==
    [][\A t \in JsonThreads :
          (UnmarshalStep(t) /\ ScalarsThenMalformed(call[t].in)) =>
              /\ loc'[t].r = RetErr(TRUE)
              /\ \A j \in 1..Len(WellFormedPrefix(call[t].in)) :
                    DecodeEntry(call[t].in[j]) \in heap'[tbl'[call[t].set]]]_vars

\* C10 (amended): on such an input Deserialize returns a decode error and
\* leaves the set as it was: none of the k well-formed entries is added.
C10_MalformedInputLeavesSetUnchanged ==
    [][\A t \in JsonThreads :
          (UnmarshalStep(t) /\ ScalarsThenMalformed(call[t].in)) =>
              /\ loc'[t].r = RetErr(TRUE)
              /\ tbl'[call[t].set] = tbl[call[t].set]
              /\ heap'[tbl[call[t].set]] = heap[tbl[call[t].set]]]_vars

\* a deserialization of [scalar, ..., malformed] has run its body, and the
\* scalar, which was not in the set before, is not in it now
C10_Witness ==
    \E t \in JsonThreads :
        /\ At(t, "Return") /\ call[t].op = "UnmarshalJSON"
        /\ ScalarsThenMalformed(call[t].in)
        /\ Len(WellFormedPrefix(call[t].in)) >= 1
        /\ loc[t].r = RetErr(TRUE)
        /\ DecodeEntry(call[t].in[1]) \notin Keys(call[t].set)

-----------------------------------------------------------------------------
(* WriteSpec: each thread makes one call on the guarded sets: a mutation, a *)
(* deserialization or Contains.                                            *)

WriteInputs == {<<>>, <<[k |-> "num", a |-> 1]>>}

WriteCall(t) == Start(t, Writers \cup {"Contains"}, WriteInputs, 1)

\* Two bodies on one table, one of them writing it, is a data race on the Go
\* map: the runtime may stop the process ("concurrent map writes",
\* "concurrent map read and map write") or let both run.
Race(t) ==
    /\ At(t, "Body") /\ call[t].op \in Writers
    /\ \E u \in Threads \ {t} :
          /\ At(u, "Body")
          /\ tbl[call[t].set] \in {tbl[call[u].set], tbl[call[u].other]}
    /\ fatal' = TRUE
    /\ UNCHANGED <<kind, tbl, heap, mu, pc, blocked, call, loc, ret, held, ncalls, hist, chan>>

WriteNext ==
    \/ \E t \in MainThreads : WriteCall(t)
    \/ \E t \in MainThreads : RLock(t)
    \/ \E t \in MainThreads : RLockWake(t)
    \/ \E t \in MainThreads : Lock(t)
    \/ \E t \in MainThreads : LockWake(t)
    \/ \E t \in MainThreads : RUnlock(t)
    \/ \E t \in MainThreads : Unlock(t)
    \/ \E t \in MainThreads : Body(t)
    \/ \E t \in MainThreads : Race(t)
    \/ \E t \in MainThreads : Return(t)

WriteSpec == LockInit(MainThreads) /\ [][WriteNext]_vars

\* C4: while a thread is in the body of a method that writes a guarded set's
\* table (Add, Remove, Clear, Pop, UnmarshalJSON) it holds the set's write
\* lock, and no other thread is in a body that reads or writes that set.
C4_WriterExclusion ==
    \A t \in Threads :
        (At(t, "Body") /\ call[t].op \in Writers /\ kind[call[t].set] = "safe") =>
            LET o == call[t].set
            IN  /\ mu[o].w /\ mu[o].wp /\ held[t][o] = 1
                /\ \A u \in Threads \ {t} :
                      ~(At(u, "Body") /\ o \in {call[u].set, call[u].other})

-----------------------------------------------------------------------------
(* AddSpec: NumAdders threads, thread i calling Add(i) on the empty guarded *)
(* set 1, and one more thread calling Cardinality and Contains on it.       *)

NumAdders == 2

Adders == 1..NumAdders
AddThreads == 1..(NumAdders + 1)

AddInit ==
    InitWith(AddThreads, GuardedOnly(AddThreads), [o \in SafeObjs \cup UnsafeObjs |-> {}])

AddCall(t) ==
    /\ pc[t] = 0
    /\ IF t \in Adders
          THEN StartCall(t, MkCall("Add", 1, 1, IntV(t), <<>>), 1)
          ELSE \/ StartCall(t, MkCall("Cardinality", 1, 1, NilV, <<>>), MaxCalls)
               \/ \E i \in Adders :
                     StartCall(t, MkCall("Contains", 1, 1, IntV(i), <<>>), MaxCalls)

AddNext ==
    \/ \E t \in AddThreads : AddCall(t)
    \/ \E t \in AddThreads : RLock(t)
    \/ \E t \in AddThreads : RLockWake(t)
    \/ \E t \in AddThreads : Lock(t)
    \/ \E t \in AddThreads : LockWake(t)
    \/ \E t \in AddThreads : RUnlock(t)
    \/ \E t \in AddThreads : Unlock(t)
    \/ \E t \in AddThreads : Body(t)
    \/ \E t \in AddThreads : Return(t)

AddSpec == AddInit /\ [][AddNext]_vars

\* the Add of thread i has released the lock
AddCompleted(i) == Returned(i) \/ At(i, "Return")

\* C5: NumAdders threads adding pairwise distinct keys to an empty guarded set
\* end with exactly those keys in the set, every Add having returned true; and
\* whenever a reader is in the body of Cardinality or Contains, the table
\* holds exactly the keys of the Adds completed so far.
C5_ConcurrentAdds ==
    /\ ~fatal
    /\ (\A i \in Adders : Returned(i)) =>
          /\ Keys(1) = {IntV(i) : i \in Adders}
          /\ UnsafeCardinality(Keys(1)) = NumAdders
          /\ \A i \in Adders : ret[i] = [RetBool(TRUE) EXCEPT !.op = "Add"]
    /\ \A r \in AddThreads \ Adders :
          At(r, "Body") => Keys(1) = {IntV(i) : i \in {j \in Adders : AddCompleted(j)}}

\* every Add has returned, and the reader's Cardinality saw some but not all
\* of the keys
C5_Witness ==
    /\ \A i \in Adders : Returned(i)
    /\ \E r \in AddThreads \ Adders :
          /\ ret[r].op = "Cardinality"
          /\ ret[r].v.a > 0 /\ ret[r].v.a < NumAdders

-----------------------------------------------------------------------------
(* PureSpec: one caller, both variants.  The guarded sets 1, 2 and the      *)
(* unguarded sets 3, 4 start with the same keys; the caller makes a binary  *)
(* operation and then mutates the result or the operands.                   *)

PureThreads == 1..1

PureInit ==
    \E X \in SUBSET Elems :
        InitWith(PureThreads, BothVariants(PureThreads),
                 [o \in SafeObjs \cup UnsafeObjs |-> IF o \in {1, 3} THEN X ELSE {IntV(1)}])

PureCall(t) ==
    IF ncalls[t] = 0 THEN Start(t, BinaryOps, {}, MaxCalls)
                     ELSE Start(t, Mutators, {}, MaxCalls)

PureNext ==
    \/ \E t \in PureThreads : PureCall(t)
    \/ \E t \in PureThreads : RLock(t)
    \/ \E t \in PureThreads : Lock(t)
    \/ \E t \in PureThreads : RUnlock(t)
    \/ \E t \in PureThreads : Unlock(t)
    \/ \E t \in PureThreads : Body(t)
    \/ \E t \in PureThreads : Return(t)

PureSpec == PureInit /\ [][PureNext]_vars

BodyStep(t) == At(t, "Body") /\ pc'[t] = pc[t] + 1
ReturnStep(t) == At(t, "Return") /\ pc'[t] = 0

\* C8: the body of Union, Intersect, Difference, SymmetricDifference and
\* CartesianProduct leaves the keys of both operands as they were and puts the
\* result in a table no set uses; the call returns it as a new set of the
\* receiver's variant; and a later Add, Remove, Clear or Pop on any set - the
\* result or an operand - changes the keys of no other set.
C8_BinaryOpsArePure ==
    [][\A t \in PureThreads :
          LET c == call[t] IN
          /\ (BodyStep(t) /\ c.op \in BinaryOps) =>
                /\ tbl' = tbl
                /\ heap'[tbl[c.set]] = heap[tbl[c.set]]
                /\ heap'[tbl[c.other]] = heap[tbl[c.other]]
                /\ loc'[t].r = RetSet
                /\ loc'[t].tmp \in Addr \ UsedAddr(kind, tbl, loc)
          /\ (ReturnStep(t) /\ c.op \in BinaryOps) =>
                /\ kind'[ResultOf(t)] = kind[c.set]
                /\ tbl'[ResultOf(t)] = loc[t].tmp
                /\ \A o \in Live(kind) \ {ResultOf(t)} : Keys(o)' = Keys(o)
          /\ (BodyStep(t) /\ c.op \in Mutators) =>
                \A o \in Live(kind) \ {c.set} : Keys(o)' = Keys(o)]_vars

\* the result of a binary operation was mutated afterwards: it holds a key
\* that neither operand holds
C8_Witness ==
    \E t \in PureThreads :
        LET R == ResultOf(t) IN
        /\ kind[R] # "none"
        /\ hist[R].made \in BinaryOps \ {"CartesianProduct"}
        /\ hist[R].mut
        /\ \E x \in Keys(R) : x \notin Keys(hist[R].a) \cup Keys(hist[R].b)

-----------------------------------------------------------------------------
(* MixSpec: the first thread calls a binary method with operands of         *)
(* different variants, the other threads Add to the guarded sets.           *)

AllBinaryOps == BinaryOps \cup TestOps \cup SupersetOps

MixInit ==
    \E X \in SUBSET Elems :
        InitWith(MainThreads, BothVariants(MainThreads),
                 [o \in SafeObjs \cup UnsafeObjs |-> IF o \in {1, 3} THEN X ELSE {IntV(1)}])

MixCall(t) ==
    /\ ~fatal /\ pc[t] = 0
    /\ IF t = 1
          THEN \E op \in AllBinaryOps, self \in Usable(t), other \in Usable(t) :
                  /\ kind[self] # kind[other]
                  /\ StartCall(t, MkCall(op, self, other, NilV, <<>>), 1)
          ELSE Start(t, {"Add"}, {}, 1)

MixNext ==
    \/ \E t \in MainThreads : MixCall(t)
    \/ \E t \in MainThreads : RLock(t)
    \/ \E t \in MainThreads : RLockWake(t)
    \/ \E t \in MainThreads : Lock(t)
    \/ \E t \in MainThreads : LockWake(t)
    \/ \E t \in MainThreads : RUnlock(t)
    \/ \E t \in MainThreads : Unlock(t)
    \/ \E t \in MainThreads : Body(t)
    \/ \E t \in MainThreads : Card(t)
    \/ \E t \in MainThreads : Cmp(t)
    \/ \E t \in MainThreads : Alloc(t)
    \/ \E t \in MainThreads : Range(t)
    \/ \E t \in MainThreads : Probe(t)
    \/ \E t \in MainThreads : Test(t)
    \/ \E t \in MainThreads : Keep(t)
    \/ \E t \in MainThreads : Result(t)
    \/ \E t \in MainThreads : Panic(t)
    \/ \E t \in MainThreads : Return(t)

MixSpec == MixInit /\ [][MixNext]_vars

\* C9: a binary method called with an operand of the other variant ends only
\* in a panic: it returns no result, and it ends holding no lock.
C9_VariantMismatchIsAFault ==
    \A t \in MainThreads :
        (At(t, "Return") /\ Mixed(call[t])) =>
            /\ loc[t].r = RetPanic
            /\ held[t] = NoHeld

-----------------------------------------------------------------------------
(* IterSpec: a traversal of the guarded set 1 or the unguarded set 3 by the *)
(* goroutine of thread 1, whose consumer receives, stops or abandons, while *)
(* the other threads Add to the guarded set 1.  Every goroutine that can    *)
(* take a step eventually takes one; the consumer is under no obligation.   *)

\* the producer goroutine and one writer
IterThreads == 1..2
Producer == 1
IterWriters == IterThreads \ {Producer}

IterInit ==
    \E X \in SUBSET Elems :
        InitWith(IterThreads, BothVariants(IterThreads),
                 [o \in SafeObjs \cup UnsafeObjs |-> IF o \in {1, 3} THEN X ELSE {IntV(1)}])

\* an Add to the guarded set that may be under traversal
IterAdd(t) ==
    /\ pc[t] = 0
    /\ \E x \in Elems : StartCall(t, MkCall("Add", 1, 1, x, <<>>), 1)

ProducerStep(t) ==
    \/ RLock(t) \/ RLockWake(t) \/ Begin(t) \/ Range(t) \/ Send(t) \/ StopCase(t)
    \/ Close(t) \/ RUnlock(t) \/ Return(t)

IterNext ==
    \/ Iter(Producer)
    \/ Iterator(Producer)
    \/ Stop(Producer)
    \/ Abandon(Producer)
    \/ Begin(Producer)
    \/ Range(Producer)
    \/ Send(Producer)
    \/ StopCase(Producer)
    \/ Close(Producer)
    \/ \E t \in IterWriters : IterAdd(t)
    \/ \E t \in IterThreads : RLock(t)
    \/ \E t \in IterThreads : RLockWake(t)
    \/ \E t \in IterThreads : Lock(t)
    \/ \E t \in IterThreads : LockWake(t)
    \/ \E t \in IterThreads : RUnlock(t)
    \/ \E t \in IterThreads : Unlock(t)
    \/ \E t \in IterThreads : Body(t)
    \/ \E t \in IterThreads : Return(t)

IterSpec ==
    /\ IterInit /\ [][IterNext]_vars
    /\ WF_vars(ProducerStep(Producer))
    /\ \A t \in IterWriters : WF_vars(ThreadStep(t))

ProducerDone ==
    /\ pc[Producer] = 0 /\ ncalls[Producer] > 0
    /\ chan[Producer].closed
    /\ held[Producer] = NoHeld

\* C6: once the consumer of an Iterator() traversal has signalled stop, no
\* further element is handed over, and the producer eventually closes the
\* channel, releases the read lock and ends, so that every Add that has been
\* called eventually returns.
C6_StopEndsTraversal ==
    /\ [][chan[Producer].state = "stopped" => chan'[Producer].got = chan[Producer].got]_vars
    /\ (chan[Producer].state = "stopped") ~> ProducerDone
    /\ \A w \in IterWriters :
          (chan[Producer].state = "stopped" /\ pc[w] > 0) ~> Returned(w)

\* the consumer has signalled stop while the producer, holding the read lock
\* of the guarded set 1, is at the hand-off of an element, and an Add is
\* waiting for that set's lock
C6_Witness ==
    /\ chan[Producer].state = "stopped"
    /\ At(Producer, "Send")
    /\ call[Producer].set = 1 /\ held[Producer][1] = 1
    /\ \E w \in IterWriters : At(w, "Lock") /\ blocked[w] /\ call[w].set = 1

\* C7: when the consumer of an Iter() or Iterator() traversal stops
\* receiving before the sequence is drained, the producer still eventually
\* ends, with the channel closed and the read lock released.
C7_AbandonedProducerEnds == (chan[Producer].state = "abandoned") ~> ProducerDone

-----------------------------------------------------------------------------
(* PowerSpec: one caller takes the power set of the guarded set 1 or of the *)
(* unguarded set 3 and then mutates the set or one of the subsets.          *)

PowerThreads == 1..1
PowerObjs == {1, 3} \cup {ResultOf(t) : t \in PowerThreads} \cup {SubsetObj(i) : i \in 1..(2 ^ MaxElem)}

PowerInit ==
    \E X \in SUBSET Elems :
        /\ kind = [o \in PowerObjs |-> IF o = 1 THEN "safe" ELSE IF o = 3 THEN "unsafe" ELSE "none"]
        /\ tbl = [o \in PowerObjs |-> IF o \in {1, 3} THEN o ELSE 0]
        /\ heap = [a \in 1..(6 + 2 ^ MaxElem) |-> IF a \in {1, 3} THEN X ELSE {}]
        /\ mu = [o \in PowerObjs |-> ZeroMutex]
        /\ pc = [t \in PowerThreads |-> 0]
        /\ blocked = [t \in PowerThreads |-> FALSE]
        /\ call = [t \in PowerThreads |-> NoCall]
        /\ loc = [t \in PowerThreads |-> NoLoc]
        /\ ret = [t \in PowerThreads |-> RetNone]
        /\ held = [t \in PowerThreads |-> [o \in PowerObjs |-> 0]]
        /\ ncalls = [t \in PowerThreads |-> 0]
        /\ hist = [o \in PowerObjs |-> NoHist]
        /\ chan = [t \in PowerThreads |-> NoChan]
        /\ fatal = FALSE

\* the set whose power set t holds, and the subsets in it
Parent(t) == hist[ResultOf(t)].a
Subsets(t) == {m.a : m \in Keys(ResultOf(t))}

PowerCall(t) ==
    /\ ~fatal /\ pc[t] = 0 /\ ncalls[t] < MaxCalls
    /\ IF ncalls[t] = 0
          THEN \E self \in {1, 3} :
                  StartCall(t, MkCall("PowerSet", self, self, NilV, <<>>), MaxCalls)
          ELSE \E op \in Mutators, self \in {Parent(t)} \cup Subsets(t), arg \in Elems \cup {NilV} :
                  /\ (op \in KeyOps) <=> (arg # NilV)
                  /\ StartCall(t, MkCall(op, self, self, arg, <<>>), MaxCalls)

PowerNext ==
    \/ \E t \in PowerThreads : PowerCall(t)
    \/ \E t \in PowerThreads : RLock(t)
    \/ \E t \in PowerThreads : Lock(t)
    \/ \E t \in PowerThreads : RUnlock(t)
    \/ \E t \in PowerThreads : Unlock(t)
    \/ \E t \in PowerThreads : Power(t)
    \/ \E t \in PowerThreads : Wrap(t)
    \/ \E t \in PowerThreads : Body(t)
    \/ \E t \in PowerThreads : Return(t)

PowerSpec == PowerInit /\ [][PowerNext]_vars

\* C11: when PowerSet(A) returns, for A of n elements in either variant, the
\* result has exactly 2^n members, each a set of A's variant whose elements
\* all belong to A, no two with the same elements, one empty and one with
\* exactly A's elements; for the empty A the only member is the empty set.
C11_PowerSetMembers ==
    \A t \in PowerThreads :
        (At(t, "Return") /\ call[t].op = "PowerSet") =>
            LET A == Keys(call[t].set)
                members == heap[loc[t].tmp]
            IN  /\ loc[t].r = RetSet
                /\ Cardinality(members) = 2 ^ Cardinality(A)
                /\ \A m \in members :
                      /\ m.k = "ref" /\ kind[m.a] = kind[call[t].set]
                      /\ Keys(m.a) \subseteq A
                      /\ \A m2 \in members \ {m} : Keys(m2.a) # Keys(m.a)
                /\ \E m \in members : Keys(m.a) = {}
                /\ \E m \in members : Keys(m.a) = A
                /\ A = {} => \A m \in members : Keys(m.a) = {}

\* PowerSet of a guarded set of MaxElem elements is about to return
C11_Witness ==
    \E t \in PowerThreads :
        /\ At(t, "Return") /\ call[t].op = "PowerSet"
        /\ kind[call[t].set] = "safe"
        /\ Cardinality(Keys(call[t].set)) = MaxElem
        /\ Cardinality(heap[loc[t].tmp]) = 2 ^ MaxElem

\* C12: when PowerSet(A) returns, the subsets' tables are pairwise different
\* and different from A's table, and in the guarded variant every subset is
\* a guarded set with an unlocked mutex of its own; afterwards an Add,
\* Remove, Clear or Pop on A or on a subset changes the keys of no other
\* set, and locking one of them changes no other set's mutex.
C12_SubsetsOwnTheirTables ==
    [][\A t \in PowerThreads :
          LET c == call[t] IN
          /\ (ReturnStep(t) /\ c.op = "PowerSet") =>
                \A m \in Subsets(t)' :
                    /\ m # c.set /\ tbl'[m] # tbl'[c.set]
                    /\ \A m2 \in Subsets(t)' \ {m} : tbl'[m2] # tbl'[m]
                    /\ kind[c.set] = "safe" => (kind'[m] = "safe" /\ mu'[m] = ZeroMutex)
          /\ (BodyStep(t) /\ c.op \in Mutators) =>
                \A o \in Live(kind) \ {c.set} : Keys(o)' = Keys(o)
          /\ (At(t, "Lock") /\ pc'[t] # pc[t]) =>
                \A o \in Objs \ {c.set} : mu'[o] = mu[o]]_vars

\* a subset of the power set of a guarded set has been mutated and now holds
\* a key that the parent does not hold
C12_Witness ==
    \E t \in PowerThreads :
        \E m \in Subsets(t) :
            /\ kind[m] = "safe" /\ hist[m].mut
            /\ \E x \in Keys(m) : x \notin Keys(Parent(t))

-----------------------------------------------------------------------------
(* AlgSpec: one caller and two sets of one variant, guarded (1, 2) or       *)
(* unguarded (3, 4), that hold any keys X, Y.  The caller mutates the sets  *)
(* and then makes one binary operation or one test on them, the two         *)
(* operands being the same set or not.                                      *)

AlgThreads == 1..1
AlgOps == BinaryOps \cup TestOps \cup SupersetOps

OneVariant(T, objs, v) == [o \in ObjIds(T) |-> IF o \in objs THEN v ELSE "none"]

AlgInit ==
    \E X \in SUBSET Elems, Y \in SUBSET Elems :
        \E kd \in {OneVariant(AlgThreads, SafeObjs, "safe"),
                    OneVariant(AlgThreads, UnsafeObjs, "unsafe")} :
            InitWith(AlgThreads, kd,
                     [o \in SafeObjs \cup UnsafeObjs |-> IF o \in {1, 3} THEN X ELSE Y])

AlgMutate(t) == ret[t].op \notin AlgOps /\ Start(t, Mutators, {}, MaxCalls - 1)

AlgCall(t) ==
    /\ ret[t].op \notin AlgOps
    /\ \E op \in AlgOps, self \in Usable(t), other \in Usable(t) :
          StartCall(t, MkCall(op, self, other, NilV, <<>>), MaxCalls)

AlgNext ==
    \/ \E t \in AlgThreads : AlgMutate(t)
    \/ \E t \in AlgThreads : AlgCall(t)
    \/ \E t \in AlgThreads : RLock(t)
    \/ \E t \in AlgThreads : Lock(t)
    \/ \E t \in AlgThreads : RUnlock(t)
    \/ \E t \in AlgThreads : Unlock(t)
    \/ \E t \in AlgThreads : Body(t)
    \/ \E t \in AlgThreads : Return(t)

AlgSpec == AlgInit /\ [][AlgNext]_vars

\* the caller is about to return from op: the result is in loc
Returning(t, op) == At(t, "Return") /\ call[t].op = op
\* the keys of the set result that is about to be returned
Pending(t) == heap[loc[t].tmp]

\* C13: CartesianProduct on two sets of one variant, the same set or not,
\* never ends in a fatal error, and the set it returns holds exactly the
\* ordered pairs (a, b) with a in A and b in B: |A| x |B| of them.
C13_CartesianProductReturns ==
    \A t \in AlgThreads :
        LET c == call[t] IN
        (pc[t] > 0 /\ c.op = "CartesianProduct") =>
            /\ ~fatal
            /\ At(t, "Return") =>
                  /\ loc[t].r = RetSet
                  /\ Pending(t) = {OrderedPair(a.a, b.a) : a \in Keys(c.set), b \in Keys(c.other)}
                  /\ Cardinality(Pending(t)) =
                        Cardinality(Keys(c.set)) * Cardinality(Keys(c.other))

\* C14: the set that Union returns holds exactly the keys that are in A or
\* in B, the set that Intersect returns exactly the keys that are in both,
\* whichever operand is the smaller, and |Union| = |A| + |B| - |Intersect|.
C14_UnionIntersect ==
    \A t \in AlgThreads :
        LET A == Keys(call[t].set)
            B == Keys(call[t].other)
        IN  /\ Returning(t, "Union") =>
                  /\ \A x \in Pending(t) \cup A \cup B : x \in Pending(t) <=> (x \in A \/ x \in B)
                  /\ Cardinality(Pending(t)) =
                        Cardinality(A) + Cardinality(B) - Cardinality(UnsafeIntersect(A, B))
            /\ Returning(t, "Intersect") =>
                  /\ \A x \in Pending(t) \cup A \cup B : x \in Pending(t) <=> (x \in A /\ x \in B)
                  /\ Cardinality(UnsafeUnion(A, B)) =
                        Cardinality(A) + Cardinality(B) - Cardinality(Pending(t))

\* an Intersect of two different guarded sets of equal cardinality, neither
\* of them empty, is about to return
C14_Witness ==
    \E t \in AlgThreads :
        LET A == Keys(call[t].set)
            B == Keys(call[t].other)
        IN  /\ Returning(t, "Intersect")
            /\ kind[call[t].set] = "safe"
            /\ Cardinality(A) = Cardinality(B) /\ A # B
            /\ A # {}

\* C15: the set that SymmetricDifference returns is Equal to
\* A.Difference(B).Union(B.Difference(A)) and holds exactly the keys that are
\* in exactly one of A and B.
C15_SymmetricDifference ==
    \A t \in AlgThreads :
        LET A == Keys(call[t].set)
            B == Keys(call[t].other)
        IN  Returning(t, "SymmetricDifference") =>
               /\ UnsafeEqual(UnsafeUnion(UnsafeDifference(A, B), UnsafeDifference(B, A)),
                              Pending(t))
               /\ \A x \in Pending(t) \cup A \cup B : x \in Pending(t) <=> ((x \in A) # (x \in B))

\* a SymmetricDifference of two sets that share a key is about to return a
\* set that is not empty
C15_Witness ==
    \E t \in AlgThreads :
        LET A == Keys(call[t].set)
            B == Keys(call[t].other)
        IN  /\ Returning(t, "SymmetricDifference")
            /\ A \cap B # {}
            /\ Pending(t) # {}

\* C16: on a set as Add, Remove, Clear and Pop have left it, A.IsSubset(A) and
\* A.IsSuperset(A) return true and A.IsProperSubset(A) and
\* A.IsProperSuperset(A) return false; and A.IsProperSubset(B) returns true
\* exactly when every key of A is in B and B holds a key that A lacks.
C16_SubsetTests ==
    \A t \in AlgThreads :
        LET c == call[t]
            A == Keys(c.set)
            B == Keys(c.other)
        IN  /\ (At(t, "Return") /\ c.set = c.other) =>
                  /\ c.op \in {"IsSubset", "IsSuperset"} => loc[t].r = RetBool(TRUE)
                  /\ c.op \in {"IsProperSubset", "IsProperSuperset"} => loc[t].r = RetBool(FALSE)
            /\ Returning(t, "IsProperSubset") =>
                  loc[t].r = RetBool((\A x \in A : x \in B) /\ (\E x \in B : x \notin A))

\* a guarded set that a mutator has changed answers IsProperSuperset of itself
C16_Witness ==
    \E t \in AlgThreads :
        /\ Returning(t, "IsProperSuperset")
        /\ call[t].set = call[t].other
        /\ kind[call[t].set] = "safe"
        /\ hist[call[t].set].mut
        /\ Keys(call[t].set) # {}

-----------------------------------------------------------------------------
(* RoundSpec: one caller and two sets of one variant.  The first set holds  *)
(* integers, strings, bools, an OrderedPair and an array; the caller        *)
(* marshals it and unmarshals the bytes into the second set, which is       *)
(* empty.                                                                   *)

RoundThreads == 1..1
RoundElems ==
    Elems \cup {StringV(1), InvalidStringV, BoolV(TRUE), OrderedPair(1, 1), ArrayV}

RoundInit ==
    \E S \in SUBSET RoundElems :
        \E kd \in {OneVariant(RoundThreads, SafeObjs, "safe"),
                    OneVariant(RoundThreads, UnsafeObjs, "unsafe")} :
            /\ Cardinality(S) <= MaxLen + 1
            /\ InitWith(RoundThreads, kd,
                        [o \in SafeObjs \cup UnsafeObjs |-> IF o \in {1, 3} THEN S ELSE {}])

Marshal(t) ==
    /\ ncalls[t] = 0
    /\ \E o \in {1, 3} \cap Usable(t) :
          StartCall(t, MkCall("MarshalJSON", o, o, NilV, <<>>), MaxCalls)

\* the bytes that MarshalJSON returned go to UnmarshalJSON on the empty set
Unmarshal(t) ==
    /\ ret[t].op = "MarshalJSON"
    /\ \E o \in {2, 4} \cap Usable(t) :
          StartCall(t, MkCall("UnmarshalJSON", o, o, NilV, ret[t].out), MaxCalls)

RoundNext ==
    \/ \E t \in RoundThreads : Marshal(t)
    \/ \E t \in RoundThreads : Unmarshal(t)
    \/ \E t \in RoundThreads : RLock(t)
    \/ \E t \in RoundThreads : RUnlock(t)
    \/ \E t \in RoundThreads : Body(t)
    \/ \E t \in RoundThreads : Return(t)

RoundSpec == RoundInit /\ [][RoundNext]_vars

\* UnmarshalJSON is about to return: the original set and the set it filled
RoundTripDone(t) == Returning(t, "UnmarshalJSON")
Original(t) == Keys(call[t].set - 1)
Restored(t) == Keys(call[t].set)
Nested(S) == {x \in S : x.k \in {"pair", "array"}}

\* C17 as the specification states it: a set of strings, bools and integers
\* comes back Equal to the original, and with one more element that
\* serializes as an array or an object, Equal to the original without it.
C17_RoundTripKeepsScalars ==
    \A t \in RoundThreads :
        LET S == Original(t) IN
        (/\ RoundTripDone(t)
         /\ \A x \in S \ Nested(S) : x.k \in {"str", "bool", "int"}
         /\ Cardinality(Nested(S)) <= 1) =>
            UnsafeEqual(Restored(t), S \ Nested(S))

\* C17, amended: the round trip returns no error; a string of valid UTF-8 and
\* a bool come back as they were; an integer n comes back as the json.Number
\* n and not as the integer; a string that is not valid UTF-8 comes back as
\* the string with the replacement character; an element that serializes as
\* an array or an object does not come back; and nothing else is in the
\* restored set.  So a set of valid strings and bools, with or without
\* nested elements, comes back Equal to the original without the nested ones.
C17_RoundTrip ==
    \A t \in RoundThreads :
        LET S == Original(t)
            R == Restored(t)
        IN  RoundTripDone(t) =>
              /\ loc[t].r = RetErr(FALSE)
              /\ \A x \in S :
                    /\ x.k \in {"str", "bool"} => x \in R
                    /\ x.k = "int" => NumberV(x.a) \in R /\ x \notin R
                    /\ x.k = "rawstr" => StringV(0) \in R /\ x \notin R
                    /\ x \in Nested(S) => x \notin R
              /\ \A y \in R :
                    \/ y \in S /\ y.k \in {"str", "bool"}
                    \/ y.k = "num" /\ IntV(y.a) \in S
                    \/ y = StringV(0) /\ InvalidStringV \in S
              /\ (\A x \in S \ Nested(S) : x.k \in {"str", "bool"}) =>
                    UnsafeEqual(R, S \ Nested(S))

\* a guarded set of a string, a bool and an OrderedPair went through the round
\* trip and came back without the OrderedPair
C17_Witness ==
    \E t \in RoundThreads :
        /\ RoundTripDone(t)
        /\ kind[call[t].set] = "safe"
        /\ Original(t) = {StringV(1), BoolV(TRUE), OrderedPair(1, 1)}
        /\ Restored(t) = {StringV(1), BoolV(TRUE)}

-----------------------------------------------------------------------------
(* PopSpec: NumThreads + 1 threads, each calling Pop once on the guarded    *)
(* set 1.  Set 2 starts with the same keys and nobody touches it.           *)

PopThreads == 1..(NumThreads + 1)

PopInit ==
    \E X \in SUBSET Elems :
        InitWith(PopThreads, GuardedOnly(PopThreads),
                 [o \in SafeObjs \cup UnsafeObjs |-> IF o \in SafeObjs THEN X ELSE {}])

\* no call takes the read lock, so no writer ever sleeps waiting for readers
PopCall(t) == pc[t] = 0 /\ StartCall(t, MkCall("Pop", 1, 1, NilV, <<>>), 1)

PopNext ==
    \/ \E t \in PopThreads : PopCall(t)
    \/ \E t \in PopThreads : Lock(t)
    \/ \E t \in PopThreads : Unlock(t)
    \/ \E t \in PopThreads : Body(t)
    \/ \E t \in PopThreads : Return(t)

PopSpec == PopInit /\ [][PopNext]_vars

\* what the Pop of thread t has taken from the set: nothing yet (before its
\* body), the sentinel nil, or an element
Popped(t) ==
    IF pc[t] > 0 THEN (IF loc[t].r.k = "val" THEN {loc[t].r.v} ELSE {})
    ELSE IF ret[t].op = "Pop" THEN {ret[t].v} ELSE {}
Taken == {t \in PopThreads : Popped(t) \ {NilV} # {}}

\* C18: with any number of concurrent Pops and no other mutator on a guarded
\* set of n elements: every value other than the sentinel that a Pop returns
\* was a member of the set; no element is returned by two calls; the number
\* of such returns plus the cardinality of the set is n at every moment; and
\* the body of a Pop runs under the write lock, yields the sentinel exactly
\* when the set is empty then, leaving it as it is, and otherwise removes the
\* element it yields.
C18_ConcurrentPop ==
    /\ [](/\ \A t \in Taken : Popped(t) \subseteq Keys(2)
          /\ \A t, u \in Taken : Popped(t) = Popped(u) => t = u
          /\ Cardinality(Taken) + Cardinality(Keys(1)) = Cardinality(Keys(2)))
    /\ [][\A t \in PopThreads :
             BodyStep(t) =>
                /\ mu[1].w /\ held[t][1] = 1
                /\ (loc'[t].r = RetVal(NilV)) <=> (Keys(1) = {})
                /\ Keys(1) = {} => Keys(1)' = {}
                /\ Keys(1) # {} =>
                      /\ loc'[t].r.v \in Keys(1)
                      /\ Keys(1)' = Keys(1) \ {loc'[t].r.v}]_vars

\* two Pops have returned two different elements and a third, which found
\* the set empty, the sentinel
C18_Witness ==
    \E t, u, w \in PopThreads :
        /\ pc[t] = 0 /\ pc[u] = 0 /\ pc[w] = 0
        /\ ret[t].op = "Pop" /\ ret[u].op = "Pop" /\ ret[w].op = "Pop"
        /\ ret[t].v # NilV /\ ret[u].v # NilV /\ ret[t].v # ret[u].v
        /\ ret[w].v = NilV
        /\ Keys(1) = {}

-----------------------------------------------------------------------------
(* SnapSpec: the first thread starts a traversal of a guarded set with      *)
(* Iter() or Iterator() and consumes it, or stops or abandons it; the       *)
(* other thread calls Add, Remove, Clear or Pop on a guarded set.           *)

SnapThreads == 1..2
SnapWriters == SnapThreads \ {Producer}

SnapInit ==
    \E X \in SUBSET Elems :
        InitWith(SnapThreads, GuardedOnly(SnapThreads),
                 [o \in SafeObjs \cup UnsafeObjs |-> IF o = 1 THEN X ELSE {IntV(1)}])

SnapWrite(t) == pc[t] = 0 /\ Start(t, Mutators, {}, 1)

SnapNext ==
    \/ Iter(Producer)
    \/ Iterator(Producer)
    \/ Stop(Producer)
    \/ Abandon(Producer)
    \/ Begin(Producer)
    \/ Range(Producer)
    \/ Send(Producer)
    \/ StopCase(Producer)
    \/ Close(Producer)
    \/ \E t \in SnapWriters : SnapWrite(t)
    \/ \E t \in SnapThreads : RLock(t)
    \/ \E t \in SnapThreads : RLockWake(t)
    \/ \E t \in SnapThreads : Lock(t)
    \/ \E t \in SnapThreads : LockWake(t)
    \/ \E t \in SnapThreads : RUnlock(t)
    \/ \E t \in SnapThreads : Unlock(t)
    \/ \E t \in SnapThreads : Body(t)
    \/ \E t \in SnapThreads : Return(t)

SnapSpec == SnapInit /\ [][SnapNext]_vars

\* the producer is inside the range loop: past set.mutex.RLock() and not yet
\* past close(ch)
Traversing(t) == pc[t] > 0 /\ Instr(t).i \in {"Begin", "Range", "Send", "Close"}
\* ch <- elem succeeds
Delivers(t) == At(t, "Send") /\ chan'[t].got # chan[t].got
\* close(ch) at the end of a traversal that the consumer neither stopped nor
\* abandoned
ClosesDrained(t) == At(t, "Close") /\ chan'[t].closed /\ chan[t].state = "open"

\* the set under traversal
Traversed == call[Producer].set

-----------------------------------------------------------------------------
(* SelfSpec: the first thread calls A.Equal(A), A.IsSubset(A) or A.Union(A) *)
(* on the guarded set 1 and the second thread calls Add on that set.  Both  *)
(* threads are scheduled fairly.                                            *)

SelfThreads == 1..2
SelfOps == {"Equal", "IsSubset", "Union"}

SelfInit == LockInit(SelfThreads)

SelfCall(t) ==
    /\ pc[t] = 0
    /\ IF t = 1
          THEN \E op \in SelfOps : StartCall(t, MkCall(op, 1, 1, NilV, <<>>), 1)
          ELSE \E x \in Elems : StartCall(t, MkCall("Add", 1, 1, x, <<>>), 1)

SelfNext ==
    \/ \E t \in SelfThreads : SelfCall(t)
    \/ \E t \in SelfThreads : RLock(t)
    \/ \E t \in SelfThreads : RLockWake(t)
    \/ \E t \in SelfThreads : Lock(t)
    \/ \E t \in SelfThreads : LockWake(t)
    \/ \E t \in SelfThreads : RUnlock(t)
    \/ \E t \in SelfThreads : Unlock(t)
    \/ \E t \in SelfThreads : Body(t)
    \/ \E t \in SelfThreads : Return(t)

SelfSpec ==
    /\ SelfInit /\ [][SelfNext]_vars
    /\ \A t \in SelfThreads : WF_vars(SelfCall(t) \/ ThreadStep(t))

\* C20: with A.Equal(A), A.IsSubset(A) or A.Union(A) on one thread and Add on
\* A on another, both scheduled fairly, the call with the same set as both
\* operands eventually returns.
C20_SelfCallsReturn == <>Returned(1)

====
